---- MODULE Spec2Model ----
(***************************************************************************)
(* Model of the illusion-rs UEFI loader: loader/src/main.rs (the boot      *)
(* sequence and the boot-manager selection loop) and loader/src/images.rs  *)
(* (discovery of the device paths that hold a target file).                *)
(*                                                                         *)
(* The platform (UEFI boot services, console input) is the environment:    *)
(* every fallible platform call is an input drawn with \E.  Log output is  *)
(* not program state and is left out.                                      *)
(***************************************************************************)
EXTENDS Integers, Sequences, FiniteSets, TLC

\* ------------------------------------------------------------------ bounds
\* Largest number of SimpleFileSystem handles the platform reports.
MaxDevices == 3
\* Largest number of key events the console delivers during one selection.
MaxKeys == 2

\* ------------------------------------------------------- program constants
timeout_ms == 5000
poll_interval_us == 10000
handoff_stall_us == 3000000

WINDOWS_BOOT_MANAGER_PATH == "\\EFI\\Microsoft\\Boot\\bootmgfw.efi"
HYPERVISOR_PATH == "\\EFI\\Boot\\illusion.efi"

\* Option<T>: None is the empty sequence, Some(x) the sequence of x alone.
None == <<>>
Some(x) == <<x>>

\* ------------------------------------------------------------ images.rs
\* The handles the platform knows, in the order locate_handle_buffer reports them.
AllHandles == [i \in 1..MaxDevices |-> 100 + i]

\* What the probe of one handle runs into: the first step that fails, or "ok".
\*   fs_err     open_protocol_exclusive::<SimpleFileSystem> fails
\*   volume_err open_volume fails
\*   file_err   root.open(path) fails (file not found or access error)
\*   dp_err     open_protocol_exclusive::<DevicePath> fails
\*   copy_err   builder.push(&item) fails on a node of the device's own path
\*   final_err  pushing the FilePath node or finalize fails
ProbeOutcomes == {"ok", "fs_err", "volume_err", "file_err", "dp_err", "copy_err", "final_err"}

\* One answer of the platform to a discovery: whether locate_handle_buffer
\* succeeds, the handles it reports and what probing each of them runs into.
FsEnvs ==
    { [locate |-> "err", handles |-> <<>>, probe |-> <<>>] } \cup
    UNION { { [locate |-> "ok", handles |-> SubSeq(AllHandles, 1, n), probe |-> p] :
                p \in [1..n -> ProbeOutcomes] } : n \in 0..MaxDevices }

\* The handles on which root.open(path) succeeds: the file is there and can be opened.
HandlesWithFile(env) ==
    { i \in 1..Len(env.handles) : env.probe[i] \in {"ok", "dp_err", "copy_err", "final_err"} }

FileOnSomeHandle(env) == HandlesWithFile(env) # {}

\* BootTarget { device_path, handle, handle_index }.  The device path is the
\* copy of the device's own nodes (named by its handle) with the FilePath node appended.
BootTarget(handle, idx1, path) ==
    [device_path |-> [device |-> handle, file |-> path], handle |-> handle, handle_index |-> idx1]

\* Result of enumerate_device_paths: the targets, the 1-based indexes of the
\* handles the loop visited, and whether the unwrap of line 102 panicked.
EnumResult(targets, visited, panicked) ==
    [targets |-> targets, visited |-> visited, panicked |-> panicked]

\* The body of the probe loop for the handles from position idx1 on.
RECURSIVE ProbeLoop(_, _, _, _, _)
ProbeLoop(env, path, idx1, targets, visited) ==
    IF idx1 > Len(env.handles) THEN EnumResult(targets, visited, FALSE)
    ELSE LET outcome == env.probe[idx1]
             seen == Append(visited, idx1)
         IN CASE outcome = "copy_err" -> EnumResult(targets, seen, TRUE)
              [] outcome = "ok" ->
                    ProbeLoop(env, path, idx1 + 1,
                              Append(targets, BootTarget(env.handles[idx1], idx1, path)), seen)
              [] OTHER -> ProbeLoop(env, path, idx1 + 1, targets, seen)

enumerate_device_paths(env, path) ==
    IF env.locate = "err" THEN EnumResult(<<>>, <<>>, FALSE)
    ELSE ProbeLoop(env, path, 1, <<>>, <<>>)

\* find_device_path: the device path of the first target, if any.

\* find_device_path that takes the last discovered target instead of the first.
find_device_path_Last(env, path) ==
    LET r == enumerate_device_paths(env, path)
    IN [panicked |-> r.panicked,
        path |-> IF r.panicked \/ r.targets = <<>> THEN None
                 ELSE Some(r.targets[Len(r.targets)].device_path)]

find_device_path(env, path) ==
    LET r == enumerate_device_paths(env, path)
    IN [panicked |-> r.panicked,
        path |-> IF r.panicked \/ r.targets = <<>> THEN None ELSE Some(r.targets[1].device_path)]

find_hypervisor(env) == find_device_path(env, HYPERVISOR_PATH)

find_all_windows_boot_managers(env) == enumerate_device_paths(env, WINDOWS_BOOT_MANAGER_PATH)

\* -------------------------------------------------------------- main.rs
VARIABLES
    pc,                      \* where main is
    status,                  \* the Status main returned, None while it runs
    hypervisor_device_path,  \* Option: the path find_hypervisor returned
    candidates,              \* Vec<BootTarget> of find_all_windows_boot_managers
    selection,               \* index (0-based) into candidates
    waited_us,               \* accumulated wait of the selection loop
    selected_device_path,    \* Option: the path resolved for the boot manager
    log,                     \* the platform calls made so far, in order (polls and poll stalls are counted instead)
    polls,                   \* number of read_key calls
    keysRead,                \* number of read_key calls that returned a key
    stalls10,                \* number of stall(poll_interval_us) calls
    lastPoll,                \* result of the latest read_key call
    hvFilePresent,           \* whether some handle held the hypervisor file when find_hypervisor ran
    fsEnv,                   \* the platform's answer under enumeration (SpecEnumerate)
    enumResult               \* what enumerate_device_paths returned for fsEnv (SpecEnumerate)

vars == <<pc, status, hypervisor_device_path, candidates, selection, waited_us,
          selected_device_path, log, polls, keysRead, stalls10, lastPoll, hvFilePresent,
          fsEnv, enumResult>>

selVars == <<selection, waited_us, polls, keysRead, stalls10, lastPoll>>
enumVars == <<fsEnv, enumResult>>

\* One platform call: which service, for which stage, how it ended ("any" where
\* main drops or only logs the result), and the argument that matters, if any.
Ev(call, stage, result, arg) == [call |-> call, stage |-> stage, result |-> result, arg |-> arg]

\* Keys the console can deliver: uefi::proto::console::text::Key.
PrintableChars == {"0", "1", "2", "3", "4", "5", "6", "7", "8", "9", "x", "\r", "\n"}
ScanCodes == {"ESCAPE", "UP"}
Keys == { [kind |-> "Printable", code |-> c] : c \in PrintableChars } \cup
        { [kind |-> "Special", code |-> c] : c \in ScanCodes }

\* char::to_digit(10): Some(value) for an ASCII decimal digit, None otherwise.
DecimalDigits == <<"0", "1", "2", "3", "4", "5", "6", "7", "8", "9">>
to_digit(ch) ==
    IF \E i \in 1..Len(DecimalDigits) : DecimalDigits[i] = ch
    THEN Some((CHOOSE i \in 1..Len(DecimalDigits) : DecimalDigits[i] = ch) - 1)
    ELSE None

NoPoll == [kind |-> "unread", key |-> None]
PollKeyResult(key) == [kind |-> "key", key |-> Some(key)]
PollNoneResult == [kind |-> "none", key |-> None]
PollErrResult == [kind |-> "err", key |-> None]

NoEnum == EnumResult(<<>>, <<>>, FALSE)
NoEnv == [locate |-> "idle", handles |-> <<>>, probe |-> <<>>]

Init ==
    /\ pc = "init"
    /\ status = None
    /\ hypervisor_device_path = None
    /\ candidates = <<>>
    /\ selection = 0
    /\ waited_us = 0
    /\ selected_device_path = None
    /\ log = <<>>
    /\ polls = 0
    /\ keysRead = 0
    /\ stalls10 = 0
    /\ lastPoll = NoPoll
    /\ hvFilePresent = FALSE
    /\ fsEnv = NoEnv
    /\ enumResult = NoEnum

\* return st;
Return(st) ==
    /\ pc' = "returned"
    /\ status' = Some(st)

\* a panic: main never returns a status
Panic ==
    /\ pc' = "panicked"
    /\ status' = status

\* lines 16-21: uefi::helpers::init
InitServices ==
    /\ pc = "init"
    /\ \E res \in {"ok", "err"} :
        /\ log' = Append(log, Ev("init", "loader", res, None))
        /\ IF res = "err" THEN Return("ABORTED")
           ELSE pc' = "find_hypervisor" /\ status' = status
    /\ UNCHANGED <<hypervisor_device_path, candidates, selected_device_path, selVars, hvFilePresent, enumVars>>

\* FindHypervisor whose None arm skips the hypervisor stage instead of returning.
FindHypervisor_NoneSkipsStage ==
    /\ pc = "find_hypervisor"
    /\ \E env \in FsEnvs :
        LET r == find_hypervisor(env)
        IN /\ log' = Append(log, Ev("discover", "hypervisor",
                                    IF r.panicked THEN "panic" ELSE IF r.path = None THEN "none" ELSE "found", None))
           /\ hypervisor_device_path' = r.path
           /\ hvFilePresent' = FileOnSomeHandle(env)
           /\ IF r.panicked THEN Panic
              ELSE IF r.path = None THEN pc' = "find_boot_manager" /\ status' = status
              ELSE pc' = "load_hypervisor" /\ status' = status
    /\ UNCHANGED <<candidates, selected_device_path, selVars, enumVars>>

\* lines 25-27, 63-66: images::find_hypervisor and its match
FindHypervisor ==
    /\ pc = "find_hypervisor"
    /\ \E env \in FsEnvs :
        LET r == find_hypervisor(env)
        IN /\ log' = Append(log, Ev("discover", "hypervisor",
                                    IF r.panicked THEN "panic" ELSE IF r.path = None THEN "none" ELSE "found", None))
           /\ hypervisor_device_path' = r.path
           /\ hvFilePresent' = FileOnSomeHandle(env)
           /\ IF r.panicked THEN Panic
              ELSE IF r.path = None THEN Return("ABORTED")
              ELSE pc' = "load_hypervisor" /\ status' = status
    /\ UNCHANGED <<candidates, selected_device_path, selVars, enumVars>>


\* LoadHypervisor that tries the load again after a failure.
LoadHypervisor_RetriesOnErr ==
    /\ pc = "load_hypervisor"
    /\ \E res \in {"ok", "err"} :
        IF res = "err"
        THEN /\ log' = Append(log, Ev("load_image", "hypervisor", "err", hypervisor_device_path))
             /\ pc' = "load_hypervisor"
             /\ status' = status
        ELSE /\ log' = log \o << Ev("load_image", "hypervisor", "ok", hypervisor_device_path),
                                 Ev("loaded_image_info", "hypervisor", "any", None) >>
             /\ pc' = "start_hypervisor"
             /\ status' = status
    /\ UNCHANGED <<hypervisor_device_path, candidates, selected_device_path, selVars, hvFilePresent, enumVars>>

\* lines 30-48, 57-60: load_image of the hypervisor, then the best-effort
\* LoadedImage query, whose outcome changes nothing but the log
LoadHypervisor ==
    /\ pc = "load_hypervisor"
    /\ \E res \in {"ok", "err"} :
        IF res = "err"
        THEN /\ log' = Append(log, Ev("load_image", "hypervisor", "err", hypervisor_device_path))
             /\ Return("ABORTED")
        ELSE /\ log' = log \o << Ev("load_image", "hypervisor", "ok", hypervisor_device_path),
                                 Ev("loaded_image_info", "hypervisor", "any", None) >>
             /\ pc' = "start_hypervisor"
             /\ status' = status
    /\ UNCHANGED <<hypervisor_device_path, candidates, selected_device_path, selVars, hvFilePresent, enumVars>>


\* StartHypervisor whose Err arm only logs and goes on to the boot manager.
StartHypervisor_ErrGoesOn ==
    /\ pc = "start_hypervisor"
    /\ \E res \in {"ok", "err", "no_return"} :
        /\ log' = Append(log, Ev("start_image", "hypervisor", res, None))
        /\ CASE res = "err" -> pc' = "find_boot_manager" /\ status' = status
             [] res = "ok" -> pc' = "find_boot_manager" /\ status' = status
             [] OTHER -> pc' = "in_hypervisor" /\ status' = status
    /\ UNCHANGED <<hypervisor_device_path, candidates, selected_device_path, selVars, hvFilePresent, enumVars>>

\* lines 50-55: start_image of the hypervisor; the call may also never return
StartHypervisor ==
    /\ pc = "start_hypervisor"
    /\ \E res \in {"ok", "err", "no_return"} :
        /\ log' = Append(log, Ev("start_image", "hypervisor", res, None))
        /\ CASE res = "err" -> Return("ABORTED")
             [] res = "ok" -> pc' = "find_boot_manager" /\ status' = status
             [] OTHER -> pc' = "in_hypervisor" /\ status' = status
    /\ UNCHANGED <<hypervisor_device_path, candidates, selected_device_path, selVars, hvFilePresent, enumVars>>

\* FindBootManagers without the is_empty check.
FindBootManagers_NoEmptyCheck ==
    /\ pc = "find_boot_manager"
    /\ \E env \in FsEnvs :
        LET r == find_all_windows_boot_managers(env)
        IN /\ log' = Append(log, Ev("discover", "boot_manager",
                                    IF r.panicked THEN "panic" ELSE IF r.targets = <<>> THEN "none" ELSE "found", None))
           /\ candidates' = IF r.panicked THEN <<>> ELSE r.targets
           /\ IF r.panicked THEN Panic
              ELSE pc' = "resolve" /\ status' = status
    /\ UNCHANGED <<hypervisor_device_path, selected_device_path, selVars, hvFilePresent, enumVars>>

\* lines 69-79: find_all_windows_boot_managers and the is_empty check
FindBootManagers ==
    /\ pc = "find_boot_manager"
    /\ \E env \in FsEnvs :
        LET r == find_all_windows_boot_managers(env)
        IN /\ log' = Append(log, Ev("discover", "boot_manager",
                                    IF r.panicked THEN "panic" ELSE IF r.targets = <<>> THEN "none" ELSE "found", None))
           /\ candidates' = IF r.panicked THEN <<>> ELSE r.targets
           /\ IF r.panicked THEN Panic
              ELSE IF r.targets = <<>> THEN Return("ABORTED")
              ELSE pc' = "resolve" /\ status' = status
    /\ UNCHANGED <<hypervisor_device_path, selected_device_path, selVars, hvFilePresent, enumVars>>

\* lines 82-84: a single candidate is taken as it is
SelectSingle ==
    /\ pc = "resolve"
    /\ Len(candidates) = 1
    /\ selected_device_path' = Some(candidates[1].device_path)
    /\ pc' = "handoff_stall"
    /\ UNCHANGED <<status, hypervisor_device_path, candidates, log, selVars, hvFilePresent, enumVars>>

\* OpenMenu entered for a single candidate too.
OpenMenu_Always ==
    /\ pc = "resolve"
    /\ Len(candidates) >= 1
    /\ log' = log \o << Ev("block_io_info", "boot_manager", "any", None),
                       Ev("stdin_reset", "boot_manager", "any", None) >>
    /\ selection' = 0
    /\ waited_us' = 0
    /\ pc' = "sel_loop"
    /\ UNCHANGED <<status, hypervisor_device_path, candidates, selected_device_path,
                   polls, keysRead, stalls10, lastPoll, hvFilePresent, enumVars>>

\* lines 85-117: the menu (one BlockIO query per candidate, for the log only),
\* stdin().reset(false) with its result dropped, and the loop's variables
OpenMenu ==
    /\ pc = "resolve"
    /\ Len(candidates) # 1
    /\ log' = log \o << Ev("block_io_info", "boot_manager", "any", None),
                       Ev("stdin_reset", "boot_manager", "any", None) >>
    /\ selection' = 0
    /\ waited_us' = 0
    /\ pc' = "sel_loop"
    /\ UNCHANGED <<status, hypervisor_device_path, candidates, selected_device_path,
                   polls, keysRead, stalls10, lastPoll, hvFilePresent, enumVars>>

\* lines 158-160, reached by every break of 'sel_loop
BreakSelLoop(sel) ==
    /\ selection' = sel
    /\ selected_device_path' = Some(candidates[sel + 1].device_path)
    /\ pc' = "handoff_stall"
    /\ status' = status

\* the loop goes round again
ContinueSelLoop ==
    /\ pc' = "sel_loop"
    /\ UNCHANGED <<status, selection, selected_device_path>>

\* HandleKey with Escape taken as a confirmation of the default instead of an abort.
HandleKey_EscapeDefault(key) ==
    IF key.kind = "Printable"
    THEN LET d == to_digit(key.code)
         IN IF d # None
            THEN IF d[1] >= 1 /\ d[1] <= Len(candidates)
                 THEN BreakSelLoop(d[1] - 1)
                 ELSE ContinueSelLoop
            ELSE IF key.code = "\r" \/ key.code = "\n"
                 THEN BreakSelLoop(selection)
                 ELSE ContinueSelLoop
    ELSE IF key.code = "ESCAPE"
         THEN BreakSelLoop(selection)
         ELSE ContinueSelLoop

\* HandleKey that breaks on a valid digit without the assignment selection = idx - 1.
HandleKey_DigitKeepsDefault(key) ==
    IF key.kind = "Printable"
    THEN LET d == to_digit(key.code)
         IN IF d # None
            THEN IF d[1] >= 1 /\ d[1] <= Len(candidates)
                 THEN BreakSelLoop(selection)
                 ELSE ContinueSelLoop
            ELSE IF key.code = "\r" \/ key.code = "\n"
                 THEN BreakSelLoop(selection)
                 ELSE ContinueSelLoop
    ELSE IF key.code = "ESCAPE"
         THEN Return("ABORTED") /\ UNCHANGED <<selection, selected_device_path>>
         ELSE ContinueSelLoop


\* HandleKey without the Enter arm: '\r' and '\n' are ignored like any other key.
HandleKey_EnterIgnored(key) ==
    IF key.kind = "Printable"
    THEN LET d == to_digit(key.code)
         IN IF d # None
            THEN IF d[1] >= 1 /\ d[1] <= Len(candidates)
                 THEN BreakSelLoop(d[1] - 1)
                 ELSE ContinueSelLoop
            ELSE ContinueSelLoop
    ELSE IF key.code = "ESCAPE"
         THEN Return("ABORTED") /\ UNCHANGED <<selection, selected_device_path>>
         ELSE ContinueSelLoop

\* lines 121-142: what the loop does with a key it read
HandleKey(key) ==
    IF key.kind = "Printable"
    THEN LET d == to_digit(key.code)
         IN IF d # None
            THEN IF d[1] >= 1 /\ d[1] <= Len(candidates)
                 THEN BreakSelLoop(d[1] - 1)
                 ELSE ContinueSelLoop
            ELSE IF key.code = "\r" \/ key.code = "\n"
                 THEN BreakSelLoop(selection)
                 ELSE ContinueSelLoop
    ELSE IF key.code = "ESCAPE"
         THEN Return("ABORTED") /\ UNCHANGED <<selection, selected_device_path>>
         ELSE ContinueSelLoop



\* PollKey that tests the timeout before it looks at the key.
PollKey_TimeoutFirst ==
    /\ pc = "sel_loop"
    /\ keysRead < MaxKeys
    /\ \E key \in Keys :
        /\ lastPoll' = PollKeyResult(key)
        /\ IF waited_us >= timeout_ms * 1000
           THEN BreakSelLoop(selection)
           ELSE HandleKey(key)
    /\ polls' = polls + 1
    /\ keysRead' = keysRead + 1
    /\ UNCHANGED <<hypervisor_device_path, candidates, waited_us, log, stalls10, hvFilePresent, enumVars>>

\* PollKey that starts the wait over whenever a key is read.
PollKey_ResetsWait ==
    /\ pc = "sel_loop"
    /\ keysRead < MaxKeys
    /\ \E key \in Keys :
        /\ lastPoll' = PollKeyResult(key)
        /\ HandleKey(key)
    /\ polls' = polls + 1
    /\ keysRead' = keysRead + 1
    /\ waited_us' = 0
    /\ UNCHANGED <<hypervisor_device_path, candidates, log, stalls10, hvFilePresent, enumVars>>

\* lines 120-142: read_key returned Ok(Some(key))
PollKey ==
    /\ pc = "sel_loop"
    /\ keysRead < MaxKeys
    /\ \E key \in Keys :
        /\ lastPoll' = PollKeyResult(key)
        /\ HandleKey(key)
    /\ polls' = polls + 1
    /\ keysRead' = keysRead + 1
    /\ UNCHANGED <<hypervisor_device_path, candidates, waited_us, log, stalls10, hvFilePresent, enumVars>>

\* The timeout test with > for >=.
TimedOut_Strict(waited) == waited > timeout_ms * 1000

\* line 144: the timeout test
TimedOut(waited) == waited >= timeout_ms * 1000

\* lines 143-150: read_key returned Ok(None)
PollNone ==
    /\ pc = "sel_loop"
    /\ lastPoll' = PollNoneResult
    /\ polls' = polls + 1
    /\ IF TimedOut(waited_us)
       THEN /\ BreakSelLoop(selection)
            /\ UNCHANGED <<waited_us, stalls10>>
       ELSE /\ stalls10' = stalls10 + 1
            /\ waited_us' = waited_us + poll_interval_us
            /\ ContinueSelLoop
    /\ UNCHANGED <<hypervisor_device_path, candidates, log, keysRead, hvFilePresent, enumVars>>


\* PollErr that treats the read error as fatal.
PollErr_Aborts ==
    /\ pc = "sel_loop"
    /\ lastPoll' = PollErrResult
    /\ polls' = polls + 1
    /\ Return("ABORTED")
    /\ UNCHANGED <<hypervisor_device_path, candidates, selection, selected_device_path, waited_us,
                   log, keysRead, stalls10, hvFilePresent, enumVars>>

\* lines 151-154: read_key returned Err
PollErr ==
    /\ pc = "sel_loop"
    /\ lastPoll' = PollErrResult
    /\ polls' = polls + 1
    /\ BreakSelLoop(selection)
    /\ UNCHANGED <<hypervisor_device_path, candidates, waited_us, log, keysRead, stalls10, hvFilePresent, enumVars>>


\* HandoffStall without the stall call.
HandoffStall_Skipped ==
    /\ pc = "handoff_stall"
    /\ pc' = "load_boot_manager"
    /\ UNCHANGED <<status, hypervisor_device_path, candidates, selected_device_path, log, selVars,
                   hvFilePresent, enumVars>>

\* lines 163-166: the stall before the handoff
HandoffStall ==
    /\ pc = "handoff_stall"
    /\ log' = Append(log, Ev("stall", "boot_manager", "ok", Some(handoff_stall_us)))
    /\ pc' = "load_boot_manager"
    /\ UNCHANGED <<status, hypervisor_device_path, candidates, selected_device_path, selVars, hvFilePresent, enumVars>>

\* LoadBootManager whose Err arm does not return.
LoadBootManager_ErrGoesOn ==
    /\ pc = "load_boot_manager"
    /\ \E res \in {"ok", "err"} :
        log' = Append(log, Ev("load_image", "boot_manager", res, selected_device_path))
    /\ pc' = "start_boot_manager"
    /\ UNCHANGED <<status, hypervisor_device_path, candidates, selected_device_path, selVars,
                   hvFilePresent, enumVars>>

\* lines 168-176, 183-186: load_image of the boot manager
LoadBootManager ==
    /\ pc = "load_boot_manager"
    /\ \E res \in {"ok", "err"} :
        /\ log' = Append(log, Ev("load_image", "boot_manager", res, selected_device_path))
        /\ IF res = "err" THEN Return("ABORTED")
           ELSE pc' = "start_boot_manager" /\ status' = status
    /\ UNCHANGED <<hypervisor_device_path, candidates, selected_device_path, selVars, hvFilePresent, enumVars>>

\* StartBootManager whose Err arm falls through to Status::SUCCESS.
StartBootManager_ErrFallsThrough ==
    /\ pc = "start_boot_manager"
    /\ \E res \in {"ok", "err", "no_return"} :
        /\ log' = Append(log, Ev("start_image", "boot_manager", res, None))
        /\ CASE res = "err" -> Return("SUCCESS")
             [] res = "ok" -> Return("SUCCESS")
             [] OTHER -> pc' = "in_boot_manager" /\ status' = status
    /\ UNCHANGED <<hypervisor_device_path, candidates, selected_device_path, selVars,
                   hvFilePresent, enumVars>>

\* lines 178-181, 189: start_image of the boot manager; a boot manager that
\* boots never returns, one that returns Ok lets main return SUCCESS
StartBootManager ==
    /\ pc = "start_boot_manager"
    /\ \E res \in {"ok", "err", "no_return"} :
        /\ log' = Append(log, Ev("start_image", "boot_manager", res, None))
        /\ CASE res = "err" -> Return("ABORTED")
             [] res = "ok" -> Return("SUCCESS")
             [] OTHER -> pc' = "in_boot_manager" /\ status' = status
    /\ UNCHANGED <<hypervisor_device_path, candidates, selected_device_path, selVars, hvFilePresent, enumVars>>

Next ==
    \/ InitServices
    \/ FindHypervisor
    \/ LoadHypervisor
    \/ StartHypervisor
    \/ FindBootManagers
    \/ SelectSingle
    \/ OpenMenu
    \/ PollKey
    \/ PollNone
    \/ PollErr
    \/ HandoffStall
    \/ LoadBootManager
    \/ StartBootManager

Spec == Init /\ [][Next]_vars


\* The hypervisor stage of main on a platform whose devices are known from the
\* start: fsEnv is what the platform will answer to the hypervisor discovery.
InitHypervisor ==
    /\ pc = "init"
    /\ status = None
    /\ hypervisor_device_path = None
    /\ candidates = <<>>
    /\ selection = 0
    /\ waited_us = 0
    /\ selected_device_path = None
    /\ log = <<>>
    /\ polls = 0
    /\ keysRead = 0
    /\ stalls10 = 0
    /\ lastPoll = NoPoll
    /\ hvFilePresent = FALSE
    /\ fsEnv \in FsEnvs
    /\ enumResult = NoEnum

\* lines 25-67 on that platform: find_hypervisor answers from fsEnv
FindHypervisorKnown ==
    /\ pc = "find_hypervisor"
    /\ LET r == find_hypervisor(fsEnv)
       IN /\ log' = Append(log, Ev("discover", "hypervisor",
                                   IF r.panicked THEN "panic" ELSE IF r.path = None THEN "none" ELSE "found", None))
          /\ hypervisor_device_path' = r.path
          /\ hvFilePresent' = FileOnSomeHandle(fsEnv)
          /\ IF r.panicked THEN Panic
             ELSE IF r.path = None THEN Return("ABORTED")
             ELSE pc' = "load_hypervisor" /\ status' = status
    /\ UNCHANGED <<candidates, selected_device_path, selVars, enumVars>>

\* main up to the return of the hypervisor's start_image
NextHypervisor ==
    \/ InitServices
    \/ FindHypervisorKnown
    \/ LoadHypervisor
    \/ StartHypervisor

SpecHypervisor == InitHypervisor /\ [][NextHypervisor]_vars

\* lines 120-142 for a console that goes on delivering keys: the read_key calls
\* past the first MaxKeys keys. The loop handles the key as it handles any
\* key; the counts of polls and of keys read stay at their last values.
PollKeyBeyond ==
    /\ pc = "sel_loop"
    /\ keysRead = MaxKeys
    /\ \E key \in Keys :
        /\ lastPoll' = PollKeyResult(key)
        /\ HandleKey(key)
    /\ UNCHANGED <<hypervisor_device_path, candidates, waited_us, log, polls, keysRead, stalls10,
                   hvFilePresent, enumVars>>

\* main under any stream of keys: the program takes its next step as long as
\* it has one (it is the only thread of the loader).
NextStream == Next \/ PollKeyBeyond

SpecStream == Init /\ [][NextStream]_vars /\ WF_vars(NextStream)

\* ------------------------------------------- enumerate_device_paths alone
\* The discovery function applied to every answer the platform can give.
InitEnumerate ==
    /\ pc = "enumerate"
    /\ status = None
    /\ hypervisor_device_path = None
    /\ candidates = <<>>
    /\ selection = 0
    /\ waited_us = 0
    /\ selected_device_path = None
    /\ log = <<>>
    /\ polls = 0
    /\ keysRead = 0
    /\ stalls10 = 0
    /\ lastPoll = NoPoll
    /\ hvFilePresent = FALSE
    /\ fsEnv \in FsEnvs
    /\ enumResult = NoEnum

\* images.rs lines 48-127, called for either target path
EnumerateCall ==
    /\ pc = "enumerate"
    /\ \E path \in {HYPERVISOR_PATH, WINDOWS_BOOT_MANAGER_PATH} :
        /\ enumResult' = enumerate_device_paths(fsEnv, path)
        /\ log' = Append(log, Ev("discover", path, "any", None))
    /\ pc' = IF enumResult'.panicked THEN "panicked" ELSE "enumerated"
    /\ UNCHANGED <<status, hypervisor_device_path, candidates, selected_device_path, selVars, fsEnv, hvFilePresent>>

NextEnumerate == EnumerateCall

SpecEnumerate == InitEnumerate /\ [][NextEnumerate]_vars

\* ======================================================================
\* Properties
\* ======================================================================
IsLoadImage(e) == e.call = "load_image"
IsStartImage(e) == e.call = "start_image"
LoadCalls == SelectSeq(log, IsLoadImage)
StartCalls == SelectSeq(log, IsStartImage)
HasCall(call, stage) == \E i \in 1..Len(log) : log[i].call = call /\ log[i].stage = stage
HasCallEnded(call, stage, result) ==
    \E i \in 1..Len(log) : log[i].call = call /\ log[i].stage = stage /\ log[i].result = result
LastCall == log[Len(log)]

EscapeKey == [kind |-> "Special", code |-> "ESCAPE"]
DigitKey(k) == [kind |-> "Printable", code |-> ToString(k)]
Aborted == pc = "returned" /\ status = Some("ABORTED")

\* ---------------------------------------------------------------- C1
C1_EscapeRead == lastPoll = PollKeyResult(EscapeKey)

\* C1 as stated: when Escape is read with N >= 2 candidates the run ends Aborted
\* and no load_image call occurs at any point of the run.
C1_EscapeNoLoadAtAll ==
    C1_EscapeRead => Aborted /\ LoadCalls = <<>>

\* C1 as amended: when Escape is read with N >= 2 candidates the run ends
\* Aborted at once, no boot-manager image is resolved or loaded and no platform
\* call follows the selection loop; the only load_image call of the run is the
\* hypervisor's, made before the boot managers were searched.
C1_EscapeAbortsBeforeBootManagerLoad ==
    C1_EscapeRead =>
        /\ Len(candidates) >= 2
        /\ Aborted
        /\ selected_device_path = None
        /\ ~HasCall("load_image", "boot_manager")
        /\ ~HasCall("start_image", "boot_manager")
        /\ LastCall.call = "stdin_reset"
        /\ Len(LoadCalls) = 1 /\ LoadCalls[1].stage = "hypervisor"

C1_Witness ==
    /\ C1_EscapeRead
    /\ keysRead = 2
    /\ waited_us > 0
    /\ Aborted

\* ---------------------------------------------------------------- C2
\* C2: with N >= 2 candidates, a digit key k with 1 <= k <= N, read after any
\* number of ignored keys, ends the selection loop, and the device path handed
\* to the boot manager's load_image is the one of the k-th candidate.
C2_DigitSelectsKth ==
    \A k \in 1..9 :
        (lastPoll = PollKeyResult(DigitKey(k)) /\ k <= Len(candidates)) =>
            /\ Len(candidates) >= 2
            /\ pc # "sel_loop"
            /\ selection = k - 1
            /\ selected_device_path = Some(candidates[k].device_path)
            /\ \A i \in 1..Len(log) :
                (log[i].call = "load_image" /\ log[i].stage = "boot_manager") =>
                    log[i].arg = Some(candidates[k].device_path)
            /\ pc \in {"handoff_stall", "load_boot_manager"} \/ HasCall("load_image", "boot_manager")

C2_Witness ==
    /\ lastPoll = PollKeyResult(DigitKey(2))
    /\ keysRead = 2
    /\ waited_us > 0
    /\ pc = "start_boot_manager"
    /\ LastCall = Ev("load_image", "boot_manager", "ok", Some(candidates[2].device_path))

\* ---------------------------------------------------------------- C3
\* C3: with N >= 2 candidates and no key on any poll, every poll but the last
\* stalls 10 ms, the loop ends on the poll that finds the accumulated wait at
\* 5000 ms, after exactly 500 stalls, and the first candidate is selected.
C3_TimeoutSelectsFirst ==
    (keysRead = 0 /\ lastPoll = PollNoneResult) =>
        /\ Len(candidates) >= 2
        /\ waited_us = stalls10 * 10 * 1000
        /\ pc = "sel_loop" => polls = stalls10 /\ stalls10 <= 500
        /\ pc # "sel_loop" =>
            /\ stalls10 = 500
            /\ polls = 501
            /\ waited_us = 5000 * 1000
            /\ selection = 0
            /\ selected_device_path = Some(candidates[1].device_path)

C3_Witness ==
    /\ keysRead = 0
    /\ lastPoll = PollNoneResult
    /\ stalls10 = 500
    /\ pc = "load_boot_manager"
    /\ selected_device_path = Some(candidates[1].device_path)

\* ---------------------------------------------------------------- C4
\* C4: a single candidate is selected with no interaction: the console input is
\* never reset, no key is read, no poll stall is made, and the call that follows
\* the discovery is the stall before the handoff.
C4_SingleCandidateNoInteraction ==
    Len(candidates) = 1 =>
        /\ ~HasCall("stdin_reset", "boot_manager")
        /\ ~HasCall("block_io_info", "boot_manager")
        /\ polls = 0 /\ keysRead = 0 /\ stalls10 = 0 /\ waited_us = 0
        /\ lastPoll = NoPoll
        /\ pc \in {"resolve", "handoff_stall", "load_boot_manager", "start_boot_manager",
                   "in_boot_manager", "returned"}
        /\ pc # "resolve" => selected_device_path = Some(candidates[1].device_path)
        /\ \A i \in 1..Len(log) - 1 :
            (log[i].call = "discover" /\ log[i].stage = "boot_manager") =>
                log[i + 1] = Ev("stall", "boot_manager", "ok", Some(3000000))

C4_Witness ==
    /\ Len(candidates) = 1
    /\ pc = "start_boot_manager"
    /\ selected_device_path = Some(candidates[1].device_path)

\* ---------------------------------------------------------------- C5
\* C5: in both stages a failed load_image is the last platform call of the run:
\* start_image is not called for that stage, no later stage is entered, and the
\* run has returned ABORTED.
C5_LoadFailureIsFatal ==
    \A i \in 1..Len(log) :
        (log[i].call = "load_image" /\ log[i].result = "err") =>
            /\ i = Len(log)
            /\ Aborted
            /\ ~HasCall("start_image", log[i].stage)
            /\ log[i].stage = "hypervisor" => ~HasCall("discover", "boot_manager")

C5_Witness ==
    /\ Len(log) > 0
    /\ LastCall.call = "load_image"
    /\ LastCall.stage = "boot_manager"
    /\ LastCall.result = "err"
    /\ Aborted

\* ---------------------------------------------------------------- C6
\* The handles on which every probe step succeeds, in enumeration order, each
\* with its 1-based position among all the handles.
RECURSIVE PassingTargets(_, _, _)
PassingTargets(env, path, n) ==
    IF n = 0 THEN <<>>
    ELSE IF env.probe[n] = "ok"
         THEN Append(PassingTargets(env, path, n - 1),
                     [device_path |-> [device |-> env.handles[n], file |-> path],
                      handle |-> env.handles[n], handle_index |-> n])
         ELSE PassingTargets(env, path, n - 1)

\* C6: for every list of handles and every pattern of probe outcomes,
\* enumerate_device_paths returns exactly the handles on which every probe step
\* succeeded, in enumeration order, each with handle_index equal to its 1-based
\* position; it returns the empty sequence when none passes, when there is no
\* handle, or when the handles cannot be located.
C6_ReturnsPassingHandles ==
    pc # "enumerate" =>
        /\ pc = "enumerated"
        /\ ~enumResult.panicked
        /\ enumResult.targets = PassingTargets(fsEnv, LastCall.stage, Len(fsEnv.handles))

\* ---------------------------------------------------------------- C7
\* C7: if no handle holds the hypervisor file, the run returns ABORTED right
\* after the hypervisor discovery: no load_image, no start_image and no
\* boot-manager discovery are made.
C7_NoHypervisorAbortsBeforeLoad ==
    (HasCall("discover", "hypervisor") /\ ~hvFilePresent) =>
        /\ Aborted
        /\ hypervisor_device_path = None
        /\ LoadCalls = <<>>
        /\ StartCalls = <<>>
        /\ ~HasCall("discover", "boot_manager")
        /\ LastCall.call = "discover" /\ LastCall.stage = "hypervisor"

C7_Witness ==
    /\ HasCall("discover", "hypervisor")
    /\ ~hvFilePresent
    /\ Aborted
    /\ Len(log) = 2

\* ---------------------------------------------------------------- C8
\* C8 as stated: whenever the run aborts because a discovery (of the hypervisor
\* or of the boot manager) was empty, no load_image call has occurred in the run.
C8_EmptyDiscoveryNoLoadAtAll ==
    (Len(log) > 0 /\ LastCall.call = "discover" /\ LastCall.result = "none" /\ Aborted) =>
        LoadCalls = <<>>

\* C8 as amended: an empty discovery is the last platform call of the run, which
\* returns ABORTED before any load of that stage's image: after an empty
\* hypervisor discovery no load_image call has occurred at all; after an empty
\* boot-manager discovery the only load_image call of the run is the
\* hypervisor's, and it succeeded.
C8_EmptyDiscoveryAbortsBeforeStageLoad ==
    \A i \in 1..Len(log) :
        (log[i].call = "discover" /\ log[i].result = "none") =>
            /\ i = Len(log)
            /\ Aborted
            /\ ~HasCall("load_image", log[i].stage)
            /\ log[i].stage = "hypervisor" => LoadCalls = <<>>
            /\ log[i].stage = "boot_manager" =>
                /\ Len(LoadCalls) = 1
                /\ LoadCalls[1].stage = "hypervisor"
                /\ LoadCalls[1].result = "ok"
                /\ candidates = <<>>

C8_Witness ==
    /\ Len(log) > 0
    /\ LastCall = Ev("discover", "boot_manager", "none", None)
    /\ Aborted
    /\ Len(LoadCalls) = 1

\* ---------------------------------------------------------------- C9
\* A platform call whose failure main answers with return Status::ABORTED.
IsFatal(e) ==
    \/ e.call = "init" /\ e.result = "err"
    \/ e.call = "discover" /\ e.result = "none"
    \/ e.call = "load_image" /\ e.result = "err"
    \/ e.call = "start_image" /\ e.result = "err"

\* C9: main returns SUCCESS only when the boot manager's start_image returned Ok
\* after the hypervisor was found, loaded, started and returned; every other
\* return (init failure, empty discovery, load failure, start failure, Escape)
\* is ABORTED; once the status is decided nothing more happens.
C9_SuccessOnlyAfterBothStages ==
    /\ (status # None) <=> (pc = "returned")
    /\ status \in {None, Some("SUCCESS"), Some("ABORTED")}
    /\ status = Some("SUCCESS") =>
        /\ LastCall = Ev("start_image", "boot_manager", "ok", None)
        /\ HasCallEnded("discover", "hypervisor", "found")
        /\ HasCallEnded("load_image", "hypervisor", "ok")
        /\ HasCallEnded("start_image", "hypervisor", "ok")
        /\ HasCallEnded("discover", "boot_manager", "found")
        /\ HasCallEnded("load_image", "boot_manager", "ok")
        /\ \A i \in 1..Len(log) : ~IsFatal(log[i])
        /\ lastPoll # PollKeyResult(EscapeKey)
    /\ status = Some("ABORTED") => (IsFatal(LastCall) \/ lastPoll = PollKeyResult(EscapeKey))
    /\ \A i \in 1..Len(log) : IsFatal(log[i]) => (i = Len(log) /\ status = Some("ABORTED"))
    /\ lastPoll = PollKeyResult(EscapeKey) => status = Some("ABORTED")
    /\ status # None => ~ENABLED Next

C9_Witness ==
    /\ status = Some("SUCCESS")
    /\ Len(candidates) >= 2
    /\ keysRead > 0

\* ---------------------------------------------------------------- C11
EnterKeys == { [kind |-> "Printable", code |-> "\r"], [kind |-> "Printable", code |-> "\n"] }
C11_EnterRead == \E key \in EnterKeys : lastPoll = PollKeyResult(key)

\* C11 as stated: with N >= 2 candidates an Enter key ends the selection loop
\* and selects the default candidate, and that candidate is the one whose
\* ordinal (handle_index, the 1-based position in the discovery pass) is 1.
C11_EnterSelectsOrdinalOne ==
    C11_EnterRead =>
        /\ pc # "sel_loop"
        /\ selected_device_path = Some(candidates[selection + 1].device_path)
        /\ candidates[selection + 1].handle_index = 1

\* C11 as amended: with N >= 2 candidates an Enter key ends the selection loop
\* and selects the default candidate, which is the first element of the
\* candidate list (menu option 1); its handle_index is its 1-based position
\* among all the handles of the discovery pass, the least of the candidates'
\* but not always 1.
C11_EnterSelectsFirstCandidate ==
    C11_EnterRead =>
        /\ Len(candidates) >= 2
        /\ pc # "sel_loop"
        /\ status # Some("ABORTED") \/ HasCall("load_image", "boot_manager")
        /\ selection = 0
        /\ selected_device_path = Some(candidates[1].device_path)
        /\ \A i \in 1..Len(log) :
            (log[i].call = "load_image" /\ log[i].stage = "boot_manager") =>
                log[i].arg = Some(candidates[1].device_path)
        /\ candidates[1].handle_index >= 1
        /\ \A j \in 2..Len(candidates) : candidates[1].handle_index < candidates[j].handle_index

C11_Witness ==
    /\ lastPoll = PollKeyResult([kind |-> "Printable", code |-> "\r"])
    /\ keysRead = 2
    /\ candidates[1].handle_index = 2
    /\ pc = "start_boot_manager"
    /\ LastCall = Ev("load_image", "boot_manager", "ok", Some(candidates[1].device_path))

\* ---------------------------------------------------------------- C12
\* C12: with N >= 2 candidates a key-read error at any poll ends the selection
\* loop at once with the first candidate selected; the run is not aborted by it
\* and goes on to the stall before the handoff and the boot manager's load_image.
C12_ReadErrorSelectsDefault ==
    lastPoll = PollErrResult =>
        /\ Len(candidates) >= 2
        /\ pc \in {"handoff_stall", "load_boot_manager", "start_boot_manager",
                   "in_boot_manager", "returned"}
        /\ selection = 0
        /\ selected_device_path = Some(candidates[1].device_path)
        /\ pc # "handoff_stall" => HasCall("stall", "boot_manager")
        /\ pc \notin {"handoff_stall", "load_boot_manager"} =>
            \E i \in 1..Len(log) :
                /\ log[i].call = "load_image" /\ log[i].stage = "boot_manager"
                /\ log[i].arg = Some(candidates[1].device_path)
        /\ pc = "returned" => LastCall.stage = "boot_manager" /\ LastCall.call \in {"load_image", "start_image"}

C12_Witness ==
    /\ lastPoll = PollErrResult
    /\ keysRead = 2
    /\ waited_us > 0
    /\ pc = "start_boot_manager"

\* ---------------------------------------------------------------- C13
CallCount(call, stage) ==
    Cardinality({ i \in 1..Len(log) : log[i].call = call /\ log[i].stage = stage })

\* C13: no stage is retried: load_image, start_image and the discovery are each
\* called at most once per stage, and a failed load_image or start_image is the
\* last such call of the run.
C13_NoRetry ==
    /\ \A call \in {"load_image", "start_image", "discover"} :
        \A stage \in {"hypervisor", "boot_manager"} : CallCount(call, stage) <= 1
    /\ \A i \in 1..Len(log) :
        (log[i].call \in {"load_image", "start_image"} /\ log[i].result = "err") =>
            /\ Aborted
            /\ \A j \in (i + 1)..Len(log) : log[j].call \notin {"load_image", "start_image", "discover"}

C13_Witness ==
    /\ Len(log) > 0
    /\ LastCall = Ev("start_image", "boot_manager", "err", None)
    /\ CallCount("load_image", "hypervisor") = 1
    /\ CallCount("load_image", "boot_manager") = 1
    /\ CallCount("start_image", "hypervisor") = 1
    /\ Aborted

\* ---------------------------------------------------------------- C14
\* The order in which main makes its platform calls; the read_key polls and
\* their stalls come between stdin_reset and the stall before the handoff.
CallOrder ==
    << <<"init", "loader">>,
       <<"discover", "hypervisor">>,
       <<"load_image", "hypervisor">>,
       <<"loaded_image_info", "hypervisor">>,
       <<"start_image", "hypervisor">>,
       <<"discover", "boot_manager">>,
       <<"block_io_info", "boot_manager">>,
       <<"stdin_reset", "boot_manager">>,
       <<"stall", "boot_manager">>,
       <<"load_image", "boot_manager">>,
       <<"start_image", "boot_manager">> >>

InCallOrder(e) == \E r \in 1..Len(CallOrder) : CallOrder[r] = <<e.call, e.stage>>
Rank(e) == CHOOSE r \in 1..Len(CallOrder) : CallOrder[r] = <<e.call, e.stage>>

C14_OrderedLog ==
    /\ \A i \in 1..Len(log) : InCallOrder(log[i])
    /\ \A i \in 1..(Len(log) - 1) : Rank(log[i]) < Rank(log[i + 1])
    /\ polls > 0 => HasCall("stdin_reset", "boot_manager")
    /\ pc = "sel_loop" => LastCall.call = "stdin_reset"
    /\ HasCall("discover", "boot_manager") =>
        /\ HasCallEnded("discover", "hypervisor", "found")
        /\ HasCallEnded("load_image", "hypervisor", "ok")
        /\ HasCallEnded("start_image", "hypervisor", "ok")
    /\ HasCallEnded("start_image", "hypervisor", "err") =>
        /\ Aborted
        /\ LastCall = Ev("start_image", "hypervisor", "err", None)
        /\ ~HasCall("discover", "boot_manager")

\* a read_key poll is made only right after stdin_reset, before any later call
C14_PollsInSelection ==
    polls' # polls => (Len(log) > 0 /\ LastCall.call = "stdin_reset" /\ log' = log)

\* C14: in every run the platform calls are made in the order hypervisor
\* discovery, load, start, boot-manager discovery, selection, stall before the
\* handoff, boot-manager load, start; the boot-manager discovery is made only
\* after the hypervisor's start_image returned Ok, and a failed start of the
\* hypervisor ends the run ABORTED without it.
C14_CallsInOrder == []C14_OrderedLog /\ [][C14_PollsInSelection]_vars

C14_Witness ==
    /\ pc = "in_boot_manager"
    /\ polls > 1
    /\ Len(log) = Len(CallOrder)

\* ---------------------------------------------------------------- C15
IsHandoffStall(e) == e = Ev("stall", "boot_manager", "ok", Some(3000000))

C15_OneStallBeforeLoad ==
    /\ CallCount("stall", "boot_manager") <= 1
    /\ \A i \in 1..Len(log) : log[i].call = "stall" => IsHandoffStall(log[i])
    /\ HasCall("stall", "boot_manager") =>
        /\ selected_device_path # None
        /\ pc \in {"load_boot_manager", "start_boot_manager", "in_boot_manager", "returned"}
    /\ \A i \in 1..Len(log) :
        (log[i].call = "load_image" /\ log[i].stage = "boot_manager") =>
            /\ i > 1
            /\ IsHandoffStall(log[i - 1])
            /\ log[i].arg = selected_device_path
    /\ pc \in {"start_boot_manager", "in_boot_manager"} => HasCall("load_image", "boot_manager")
    /\ (Aborted /\ ~HasCall("load_image", "boot_manager")) => ~HasCall("stall", "boot_manager")
    /\ lastPoll = PollKeyResult(EscapeKey) => ~HasCall("stall", "boot_manager")

\* no key is read once the stall has been made
C15_NoPollAfterStall ==
    HasCall("stall", "boot_manager") =>
        (polls' = polls /\ keysRead' = keysRead /\ stalls10' = stalls10 /\ lastPoll' = lastPoll)

\* C15: every run that reaches the boot manager's load_image has made exactly
\* one 3-second stall, after the candidate was resolved and right before that
\* call, whichever way the candidate was resolved; no key is read from the stall
\* on; a run that aborts before the boot-manager stage (Escape included) makes
\* no such stall.
C15_HandoffStall == []C15_OneStallBeforeLoad /\ [][C15_NoPollAfterStall]_vars

C15_Witness ==
    /\ pc = "start_boot_manager"
    /\ lastPoll = PollNoneResult
    /\ keysRead = 1
    /\ CallCount("stall", "boot_manager") = 1
    /\ LastCall.call = "load_image"

\* ---------------------------------------------------------------- C16
\* C16: discovery is fail-skip for every probe step: whichever step fails on a
\* device (filesystem open, volume open, file open, device-path open, copy of
\* an existing node, appending the file-name node), discovery completes without
\* ending the process, has visited every located handle exactly once in order,
\* and has left every failing device out of the result.
C16_FailSkipEveryStep ==
    pc # "enumerate" =>
        /\ pc = "enumerated"
        /\ ~enumResult.panicked
        /\ fsEnv.locate = "ok" =>
            enumResult.visited = [i \in 1..Len(fsEnv.handles) |-> i]
        /\ \A i \in 1..Len(fsEnv.handles) :
            fsEnv.probe[i] # "ok" =>
                \A t \in 1..Len(enumResult.targets) :
                    enumResult.targets[t].handle_index # i

\* ---------------------------------------------------------------- C17
\* The keys the menu of n candidates ignores: a printable key that is neither
\* Enter nor one of the digits 1..n, and a special key other than Escape.
C17_Ignored(key, n) ==
    \/ /\ key.kind = "Printable"
       /\ key \notin EnterKeys
       /\ \A k \in 1..n : key # DigitKey(k)
    \/ /\ key.kind = "Special"
       /\ key # EscapeKey

\* a poll that reads an ignored key leaves the loop, the selection and the wait as they were
C17_IgnoredKeyStep ==
    \A key \in Keys :
        (/\ pc = "sel_loop"
         /\ polls' = polls + 1
         /\ lastPoll' = PollKeyResult(key)
         /\ C17_Ignored(key, Len(candidates))) =>
            /\ pc' = "sel_loop"
            /\ status' = None
            /\ selection' = selection
            /\ selection' = 0
            /\ selected_device_path' = None
            /\ waited_us' = waited_us
            /\ stalls10' = stalls10
            /\ log' = log

\* the accumulated wait only grows, by one poll interval at a time
C17_WaitNeverDecreases ==
    /\ waited_us' >= waited_us
    /\ waited_us' \in {waited_us, waited_us + 10000}

\* C17: a key the selection loop ignores (a printable key that is neither a
\* digit nor Enter, digit 0, a digit above N, a special key other than Escape)
\* changes neither the pending selection, which stays the first candidate, nor
\* the accumulated wait, and the loop goes on with the next poll; the
\* accumulated wait never decreases and is never reset.
C17_IgnoredKeyChangesNothing ==
    [][C17_IgnoredKeyStep /\ C17_WaitNeverDecreases]_vars

C17_Witness ==
    /\ pc = "sel_loop"
    /\ lastPoll = PollKeyResult([kind |-> "Printable", code |-> "0"])
    /\ keysRead = 2
    /\ waited_us = 20000
    /\ selection = 0

\* ---------------------------------------------------------------- C19
C19_WaitElapsed == waited_us >= 5000 * 1000

\* a key read once the wait has elapsed is acted on like any other key
C19_LateKeyActedOn ==
    /\ (C19_WaitElapsed /\ lastPoll = PollKeyResult(EscapeKey)) =>
        /\ Aborted
        /\ selected_device_path = None
        /\ ~HasCall("load_image", "boot_manager")
    /\ \A k \in 1..9 :
        (C19_WaitElapsed /\ lastPoll = PollKeyResult(DigitKey(k)) /\ k <= Len(candidates)) =>
            /\ pc # "sel_loop"
            /\ selection = k - 1
            /\ selected_device_path = Some(candidates[k].device_path)
    /\ (pc = "sel_loop" /\ polls > 0) => lastPoll.kind \in {"key", "none"}

\* the loop is left on the timeout only by a poll that returned no key
C19_TimeoutOnlyOnEmptyPoll ==
    (/\ pc = "sel_loop"
     /\ pc' = "handoff_stall"
     /\ lastPoll'.kind = "key") =>
        \/ lastPoll'.key[1] \in EnterKeys
        \/ \E k \in 1..Len(candidates) :
            /\ lastPoll'.key[1] = DigitKey(k)
            /\ selection' = k - 1

\* C19: each iteration of the selection loop looks at the input before the
\* timeout: a key read when the accumulated wait is already 5000 ms or more is
\* still acted on (Escape ends the run ABORTED, a digit k in 1..N selects
\* candidate k), and the loop is left with the default on the timeout only by a
\* poll that returned no key.
C19_InputCheckedBeforeTimeout ==
    []C19_LateKeyActedOn /\ [][C19_TimeoutOnlyOnEmptyPoll]_vars

C19_Witness ==
    /\ waited_us = 5000 * 1000
    /\ lastPoll = PollKeyResult(DigitKey(2))
    /\ keysRead = 1
    /\ polls = 501
    /\ selection = 1
    /\ pc = "handoff_stall"

\* ---------------------------------------------------------------- C18
\* C18: the selection loop is bounded for every stream of input events, a
\* stream that keeps delivering ignored keys included: once entered, the loop
\* is left (with a selection or an abort).
C18_LoopTerminates == (pc = "sel_loop") ~> (pc # "sel_loop")

\* ---------------------------------------------------------------- C20
\* The devices that pass every probe step for the hypervisor file, by position.
C20_Matches == { i \in 1..Len(fsEnv.handles) : fsEnv.probe[i] = "ok" }
C20_FirstMatch == CHOOSE i \in C20_Matches : \A j \in C20_Matches : i <= j
C20_PathOn(i) == Some([device |-> fsEnv.handles[i], file |-> HYPERVISOR_PATH])

====
